---- MODULE Spec2Model ----
(***************************************************************************)
(* Model of fairy_tale/fairy_tale.py: the FairyTale generator (topic       *)
(* configuration, assistant lifecycle, the per-topic pipelines run under   *)
(* asyncio.gather), the PDF writer and the run() script.                   *)
(*                                                                         *)
(* The remote service is the environment: every remote call either         *)
(* returns or raises OpenAIError, and a run's status is whatever the       *)
(* service reports.  Every await is a separate step, so that tasks         *)
(* interleave and can be cancelled exactly where the code suspends.        *)
(***************************************************************************)
EXTENDS Integers, Sequences, FiniteSets, TLC

(***************************************************************************)
(* Bounds of the exploration.                                              *)
(***************************************************************************)
MaxTopics == 2      \* longest topic list handed to the constructor/setter
MaxEntries == 2     \* longest list handed to save_fairy_tales by a caller

(***************************************************************************)
(* Python values.                                                          *)
(***************************************************************************)
None == [type |-> "NoneType", value |-> "None"]
PyStr(s) == [type |-> "str", value |-> s]
PyInt(s) == [type |-> "int", value |-> s]
PyList(items) == [type |-> "list", value |-> items]
\* isinstance(x, str)
IsStr(x) == x.type = "str"

\* the prompts of run()
FirstPrompt == "Write a fairy tale on the topic: "
SecondPrompt == "Give me the title of this fairy tale. Do not use quotation marks."

\* Ordinary topics: the lists of MaxTopics topics or fewer are the prefixes
\* of this list.
TopicNames == <<"cat", "dog", "fox", "owl">>

\* Pool of the short lists that have an empty or a whitespace-only string.
BlankPool == <<"cat", "", " ">>

RECURSIVE Pick(_, _)
\* the elements of seq at the increasing positions of the set idx
Pick(seq, idx) ==
    IF idx = {} THEN <<>>
    ELSE LET m == CHOOSE i \in idx : \A j \in idx : i <= j
         IN <<seq[m]>> \o Pick(seq, idx \ {m})

\* the topic lists a caller passes
TopicInputs ==
    {SubSeq(TopicNames, 1, n) : n \in 0..MaxTopics}
    \cup {Pick(BlankPool, idx) : idx \in {x \in SUBSET (1..Len(BlankPool)) : Cardinality(x) <= 2}}

\* str.strip() == "" for the strings of the pool
IsBlank(s) == s \in {"", " "}

(***************************************************************************)
(* Topic configuration (the topics property).                              *)
(***************************************************************************)
\* bool(s) of a str
Truthy(s) == s # ""

\* any(value)
AnyTruthy(value) == \E i \in 1..Len(value) : Truthy(value[i])

\* The setter is called with exactly one positional argument, so
\* args == (value,) and `not args` is never true.
TopicsRejected(value) ==
    LET args == <<value>>
    IN Len(args) = 0 \/ ~AnyTruthy(args[1])

(***************************************************************************)
(* Remote service vocabulary.                                              *)
(***************************************************************************)
Pending == {"queued", "in_progress"}
Terminal == {"completed", "failed"}
RunStatus == Pending \cup Terminal

UserMsg(text) == [role |-> "user", text |-> text]
AssistantMsg(text) == [role |-> "assistant", text |-> text]

RECURSIVE Conversation(_)
\* the user texts of a thread, joined
Conversation(msgs) ==
    IF msgs = <<>> THEN ""
    ELSE IF Head(msgs).role = "user"
         THEN Head(msgs).text \o "|" \o Conversation(Tail(msgs))
         ELSE Conversation(Tail(msgs))

\* The assistant's reply is a function of what the user said in the thread.
Reply(msgs) == AssistantMsg("re:" \o Conversation(msgs))

(***************************************************************************)
(* State.                                                                  *)
(***************************************************************************)
VARIABLES
    rpc,            \* who drives the object: "lib" (a caller of the class),
                    \* "pdf" (a caller of PDF), or the position of run()
    constructed,    \* a FairyTale object exists
    topics,         \* FairyTale._topics
    assistant,      \* FairyTale.assistant: "None" or the assistant's id
    responses,      \* FairyTale.responses
    lastError,      \* exception raised by the caller's last call, or "none"
    wpc,            \* write_fairy_tales: idle, gathering, returned, raised, cancelled
    wexc,           \* exception write_fairy_tales ended with
    tasks,          \* the get_fairy_tale coroutines of the current call
    threads,        \* remote threads, one slot per task
    doneOrder,      \* indices of the tasks that returned, in completion order
    remoteAssistant,\* remote side: "absent", "live", "deleted"
    deleteAttempted,\* an assistants.delete request was issued
    runPath,        \* how the try body of run() was left
    runExc,         \* exception propagating out of run()
    pdfInput,       \* the list save_fairy_tales was called with, or None
    pdfExc,         \* exception save_fairy_tales raised, or "none"
    pdfSections,    \* sections started in the PDF document
    fileWritten,    \* PDF.output was called
    service,        \* the remote service: free, or a mock with a script
    firstResult     \* what the caller of two calls got from the first one

vars == <<rpc, constructed, topics, assistant, responses, lastError,
          wpc, wexc, tasks, threads, doneOrder, remoteAssistant,
          deleteAttempted, runPath, runExc, pdfInput, pdfExc, pdfSections,
          fileWritten, service, firstResult>>

objVars == <<constructed, topics, assistant, responses>>
writeVars == <<wpc, wexc, tasks, threads, doneOrder>>
asstVars == <<remoteAssistant, deleteAttempted>>
runVars == <<runPath, runExc>>
pdfVars == <<pdfInput, pdfExc, pdfSections, fileWritten>>
mockVars == <<service, firstResult>>

\* the service as it is: any status, any call may raise
FreeService == [mode |-> "free", script |-> <<>>]

Ended == {"done", "raised", "cancelled"}

\* get_fairy_tale(f"{first_prompt}{topic}.", second_prompt), not yet started
TaskInit(topic) ==
    [pc |-> "thread_create", first_prompt |-> FirstPrompt \o topic \o ".",
     run1 |-> "none", run2 |-> "none", messages |-> <<>>,
     result |-> None, exc |-> "none"]

ThreadInit ==
    [created |-> FALSE, deleteAttempted |-> FALSE, deleted |-> FALSE,
     msgs |-> <<>>, runs |-> <<>>]

\* nothing constructed, nothing called
StartState ==
    /\ constructed = FALSE
    /\ topics = <<>>
    /\ assistant = "None"
    /\ responses = None
    /\ lastError = "none"
    /\ wpc = "idle"
    /\ wexc = "none"
    /\ tasks = <<>>
    /\ threads = <<>>
    /\ doneOrder = <<>>
    /\ remoteAssistant = "absent"
    /\ deleteAttempted = FALSE
    /\ runPath = "none"
    /\ runExc = "none"
    /\ pdfInput = None
    /\ pdfExc = "none"
    /\ pdfSections = <<>>
    /\ fileWritten = FALSE
    /\ service = FreeService
    /\ firstResult = None

Init ==
    /\ rpc \in {"lib", "pdf", "start"}
    /\ StartState

(***************************************************************************)
(* get_fairy_tale: one coroutine per topic.  Each action is one await.     *)
(***************************************************************************)
\* variant: the loop goes on until the run is completed
WhileNotCompleted(status) == status # "completed"

\* variant: a run in progress ends the loop
WhileQueued(status) == status = "queued"

\* the loop condition of wait_for_response
WhilePending(status) == status = "queued" \/ status = "in_progress"

\* variant: one completed run is enough
EitherCompleted(run1, run2) == run1 = "completed" \/ run2 = "completed"

\* variant: only the first run is tested
FirstCompleted(run1, run2) == run1 = "completed"

\* the condition under which get_fairy_tale returns the texts
BothCompleted(run1, run2) == run1 = "completed" /\ run2 = "completed"

\* variant: the texts of all messages, the user's among them
AllTexts(data) == [k \in 1..Len(data) |-> PyStr(data[k].text)]

RECURSIVE AssistantTexts(_)
\* (message.content[0].text.value for message in messages.data
\*  if message.role == "assistant")
AssistantTexts(data) ==
    IF data = <<>> THEN <<>>
    ELSE IF Head(data).role = "assistant"
         THEN <<PyStr(Head(data).text)>> \o AssistantTexts(Tail(data))
         ELSE AssistantTexts(Tail(data))

Generator(items) == [type |-> "generator", value |-> items]

\* the statuses the service can report next for a run reported as s
NextStatus(s) ==
    IF s = "queued" THEN RunStatus
    ELSE IF s = "in_progress" THEN {"in_progress"} \cup Terminal
    ELSE {s}

\* remote thread th after its k-th run is reported with status s: a run that
\* completes leaves the assistant's message in the thread
ThreadWithRun(th, k, s) ==
    LET old == IF k <= Len(th.runs) THEN th.runs[k] ELSE "none"
        runs == IF k <= Len(th.runs) THEN [th.runs EXCEPT ![k] = s]
                ELSE Append(th.runs, s)
    IN [th EXCEPT !.runs = runs,
                  !.msgs = IF s = "completed" /\ old # "completed"
                           THEN Append(@, Reply(@)) ELSE @]

RunField(k) == IF k = 1 THEN "run1" ELSE "run2"

\* the status runs.create reports for the k-th run of task i: a mock
\* service always starts a run as queued
ServiceCreates(i, k) ==
    IF service.mode = "free" THEN RunStatus ELSE {"queued"}

\* the status runs.retrieve reports when the run was last reported as s: a
\* mock service ends the run as its script says; a slow service reports the
\* run in progress until it ends, and for ever if its script says "never"
ServiceRetrieves(i, k, s) ==
    LET end == service.script[i][RunField(k)]
    IN IF service.mode = "free" THEN NextStatus(s)
       ELSE IF service.mode = "mock" THEN {end}
       ELSE {"in_progress"} \cup (IF end = "ends" THEN Terminal ELSE {})

CreatePc(k) == IF k = 1 THEN "create1" ELSE "create2"
PollPc(k) == IF k = 1 THEN "poll1" ELSE "poll2"
PostPc(k) == IF k = 1 THEN "post1" ELSE "post2"
\* where get_fairy_tale continues when wait_for_response returns
AfterWait(k) == IF k = 1 THEN "post2" ELSE "list"

\* the steps at which a task is suspended in a remote call
RemoteCallPcs ==
    {"thread_create", "post1", "create1", "poll1", "post2", "create2",
     "poll2", "list", "delete"}

\* variant: the coroutines are awaited one after the other
RunningInTurn(i) ==
    /\ i \in 1..Len(tasks) /\ tasks[i].pc \notin Ended
    /\ \A j \in 1..(i - 1) : tasks[j].pc \in Ended

Running(i) == i \in 1..Len(tasks) /\ tasks[i].pc \notin Ended

\* the event loop runs the tasks until run() is over
LoopRuns == rpc # "exit"

\* the coroutine t is over (returned, raised or cancelled): its frame
\* (run1, run2, messages) is gone
TaskEnds(t, pc, exc, result) ==
    [t EXCEPT !.pc = pc, !.exc = exc, !.result = result,
              !.run1 = "none", !.run2 = "none", !.messages = <<>>]

\* Nothing reads a thread once its task is over: only whether it was
\* created and whether its deletion was requested stays in the state.
ThreadLeft(th) == [th EXCEPT !.msgs = <<>>, !.runs = <<>>]

\* An exception leaves get_fairy_tale.  gather (return_exceptions=False)
\* hands the first exception of a child to its awaiter at once and leaves
\* the other children running.
TaskRaises(i, kind, newThreads) ==
    /\ tasks' = [tasks EXCEPT ![i] = TaskEnds(@, "raised", kind, None)]
    /\ threads' = [newThreads EXCEPT ![i] = ThreadLeft(@)]
    /\ wpc' = IF wpc = "gathering" THEN "raised" ELSE wpc
    /\ wexc' = IF wpc = "gathering" THEN kind ELSE wexc
    /\ UNCHANGED doneOrder

TaskSteps(i, newTask, newThreads) ==
    /\ tasks' = [tasks EXCEPT ![i] = newTask]
    /\ threads' = newThreads
    /\ UNCHANGED <<wpc, wexc, doneOrder>>

\* thread = await self.beta.threads.create()
ThreadsCreate(i) ==
    /\ UNCHANGED mockVars
    /\ LoopRuns /\ Running(i) /\ tasks[i].pc = "thread_create"
    /\ TaskSteps(i, [tasks[i] EXCEPT !.pc = "post1"],
                 [threads EXCEPT ![i].created = TRUE])
    /\ UNCHANGED <<rpc, objVars, lastError, asstVars, runVars, pdfVars>>

\* add_message: await self.beta.threads.messages.create(...)
AddMessage(i, k) ==
    /\ UNCHANGED mockVars
    /\ LoopRuns /\ Running(i) /\ tasks[i].pc = PostPc(k)
    /\ LET text == IF k = 1 THEN tasks[i].first_prompt ELSE SecondPrompt
       IN TaskSteps(i, [tasks[i] EXCEPT !.pc = CreatePc(k)],
                    [threads EXCEPT ![i].msgs = Append(@, UserMsg(text))])
    /\ UNCHANGED <<rpc, objVars, lastError, asstVars, runVars, pdfVars>>

\* wait_for_response: run = await self.beta.threads.runs.create(...), then
\* the first test of the loop condition
RunsCreate(i, k) ==
    /\ UNCHANGED mockVars
    /\ LoopRuns /\ Running(i) /\ tasks[i].pc = CreatePc(k)
    /\ IF assistant = "None"
       THEN \* self.assistant.id
            TaskRaises(i, "AttributeError", threads)
       ELSE \E s \in ServiceCreates(i, k) :
              TaskSteps(i, [tasks[i] EXCEPT
                               ![RunField(k)] = s,
                               !.pc = IF WhilePending(s) THEN PollPc(k)
                                      ELSE AfterWait(k)],
                        [threads EXCEPT ![i] = ThreadWithRun(@, k, s)])
    /\ UNCHANGED <<rpc, objVars, lastError, asstVars, runVars, pdfVars>>

\* wait_for_response: one turn of the loop (retrieve, sleep, test again)
RunsRetrieve(i, k) ==
    /\ UNCHANGED mockVars
    /\ LoopRuns /\ Running(i) /\ tasks[i].pc = PollPc(k)
    /\ \E s \in ServiceRetrieves(i, k, tasks[i][RunField(k)]) :
          TaskSteps(i, [tasks[i] EXCEPT
                           ![RunField(k)] = s,
                           !.pc = IF WhilePending(s) THEN PollPc(k)
                                  ELSE AfterWait(k)],
                    [threads EXCEPT ![i] = ThreadWithRun(@, k, s)])
    /\ UNCHANGED <<rpc, objVars, lastError, asstVars, runVars, pdfVars>>

\* messages = await self.beta.threads.messages.list(..., order="asc")
MessagesList(i) ==
    /\ UNCHANGED mockVars
    /\ LoopRuns /\ Running(i) /\ tasks[i].pc = "list"
    /\ TaskSteps(i, [tasks[i] EXCEPT !.pc = "delete",
                                     !.messages = threads[i].msgs],
                 threads)
    /\ UNCHANGED <<rpc, objVars, lastError, asstVars, runVars, pdfVars>>

\* what get_fairy_tale returns
FairyTaleResult(t) ==
    IF BothCompleted(t.run1, t.run2)
    THEN Generator(AssistantTexts(t.messages))
    ELSE None

\* await self.beta.threads.delete(...), then the return statement
ThreadsDelete(i) ==
    /\ UNCHANGED mockVars
    /\ LoopRuns /\ Running(i) /\ tasks[i].pc = "delete"
    /\ tasks' = [tasks EXCEPT ![i] = TaskEnds(@, "done", "none", FairyTaleResult(@))]
    /\ threads' = [threads EXCEPT ![i] = [ThreadLeft(@) EXCEPT !.deleteAttempted = TRUE,
                                                               !.deleted = TRUE]]
    /\ doneOrder' = Append(doneOrder, i)
    /\ UNCHANGED <<wpc, wexc>>
    /\ UNCHANGED <<rpc, objVars, lastError, asstVars, runVars, pdfVars>>

\* any remote call of the task raises OpenAIError
RemoteError(i) ==
    /\ UNCHANGED mockVars
    /\ LoopRuns /\ Running(i) /\ tasks[i].pc \in RemoteCallPcs
    /\ service.mode = "free"
    /\ tasks[i].pc \in {"create1", "create2"} => assistant # "None"
    /\ TaskRaises(i, "OpenAIError",
                  IF tasks[i].pc = "delete"
                  THEN [threads EXCEPT ![i].deleteAttempted = TRUE]
                  ELSE threads)
    /\ UNCHANGED <<rpc, objVars, lastError, asstVars, runVars, pdfVars>>

TaskNext ==
    \E i \in 1..Len(tasks) :
        \/ ThreadsCreate(i)
        \/ \E k \in 1..2 : AddMessage(i, k) \/ RunsCreate(i, k) \/ RunsRetrieve(i, k)
        \/ MessagesList(i)
        \/ ThreadsDelete(i)
        \/ RemoteError(i)

(***************************************************************************)
(* write_fairy_tales.                                                      *)
(***************************************************************************)
\* variant: the wait ends with the first child that returns
AnyDone(ts) == \E i \in 1..Len(ts) : ts[i].pc = "done"

\* asyncio.gather is done when every child has returned
GatherDone(ts) == \A i \in 1..Len(ts) : ts[i].pc = "done"

\* variant: the results in the order in which the children finished
GatherAsCompleted(ts, completed) ==
    [k \in 1..Len(completed) |-> ts[completed[k]].result]

\* the list gather returns: one slot per awaitable, in the order the
\* awaitables were passed (completed is the order in which they finished)
Gather(ts, completed) == [i \in 1..Len(ts) |-> ts[i].result]

\* filter(lambda x: x is not None, ...)
FilterNone(rs) == SelectSeq(rs, LAMBDA x : x.type # "NoneType")

\* map(tuple, ...)
MapTuple(rs) == [i \in 1..Len(rs) |-> rs[i].value]

\* the call: gather wraps one get_fairy_tale coroutine per topic in a task
WriteCall ==
    /\ constructed
    /\ wpc' = "gathering"
    /\ wexc' = "none"
    /\ tasks' = [i \in 1..Len(topics) |-> TaskInit(topics[i])]
    /\ threads' = [i \in 1..Len(topics) |-> ThreadInit]
    /\ doneOrder' = <<>>

\* variant: the stories are appended to the list self.responses holds
WriteReturnExtends ==
    /\ UNCHANGED mockVars
    /\ LoopRuns
    /\ wpc = "gathering"
    /\ GatherDone(tasks)
    /\ responses' = PyList((IF responses.type = "list" THEN responses.value
                            ELSE <<>>)
                           \o MapTuple(FilterNone(Gather(tasks, doneOrder))))
    /\ wpc' = "returned"
    /\ UNCHANGED <<rpc, constructed, topics, assistant, lastError, wexc,
                   tasks, threads, doneOrder, asstVars, runVars, pdfVars>>

\* the await of gather returns; the three assignments to self.responses
\* follow without a suspension point
WriteReturn ==
    /\ UNCHANGED mockVars
    /\ LoopRuns
    /\ wpc = "gathering"
    /\ GatherDone(tasks)
    /\ responses' = PyList(MapTuple(FilterNone(Gather(tasks, doneOrder))))
    /\ wpc' = "returned"
    /\ UNCHANGED <<rpc, constructed, topics, assistant, lastError, wexc,
                   tasks, threads, doneOrder, asstVars, runVars, pdfVars>>

\* the task awaiting gather is cancelled: gather cancels every child that
\* is not done; CancelledError is thrown into each at its await
CancelChildren(ts) ==
    [i \in 1..Len(ts) |->
        IF ts[i].pc \in Ended THEN ts[i]
        ELSE TaskEnds(ts[i], "cancelled", "CancelledError", None)]

\* the threads of the children cancelled with them
CancelThreads(ts, ths) ==
    [i \in 1..Len(ts) |-> IF ts[i].pc \in Ended THEN ths[i] ELSE ThreadLeft(ths[i])]

WriteCancelled ==
    /\ wpc = "gathering"
    /\ wpc' = "cancelled"
    /\ wexc' = "CancelledError"
    /\ tasks' = CancelChildren(tasks)
    /\ threads' = CancelThreads(tasks, threads)
    /\ UNCHANGED doneOrder

(***************************************************************************)
(* Assistant lifecycle.                                                    *)
(***************************************************************************)
\* create_assistant returns
CreateAssistantOk ==
    /\ assistant' = "asst"
    /\ remoteAssistant' = "live"
    /\ UNCHANGED deleteAttempted

\* delete_assistant returns
DeleteAssistantOk ==
    /\ assistant # "None"
    /\ deleteAttempted' = TRUE
    /\ remoteAssistant' = "deleted"
    /\ assistant' = "None"

\* variant: self.assistant is cleared before the remote call is awaited
DeleteAssistantClearsFirst ==
    /\ assistant # "None"
    /\ deleteAttempted' = TRUE
    /\ assistant' = "None"
    /\ UNCHANGED remoteAssistant

\* self.beta.assistants.delete raises: the assignment is not reached
DeleteAssistantRaises ==
    /\ assistant # "None"
    /\ deleteAttempted' = TRUE
    /\ UNCHANGED <<assistant, remoteAssistant>>

(***************************************************************************)
(* PDF.save_fairy_tales.                                                   *)
(***************************************************************************)
\* variant: one str is enough
EitherIsStr(content, title) == IsStr(content) \/ IsStr(title)

\* the test made on every entry
ValidEntry(content, title) == IsStr(content) /\ IsStr(title)

RECURSIVE SaveLoop(_, _, _)
\* the for loop from entry i on; an entry that is not a pair fails to unpack
SaveLoop(resp, i, sections) ==
    IF i > Len(resp) THEN [sections |-> sections, exc |-> "none"]
    ELSE IF Len(resp[i]) # 2 THEN [sections |-> sections, exc |-> "ValueError"]
    ELSE LET content == resp[i][1]
             title == resp[i][2]
         IN IF ValidEntry(content, title)
            THEN SaveLoop(resp, i + 1,
                          Append(sections, [title |-> title.value,
                                            content |-> content.value,
                                            is_last |-> (i = Len(resp))]))
            ELSE [sections |-> sections, exc |-> "ValueError"]

\* self.output(self.path) is the statement after the loop
OutputCalled(saved) == saved.exc = "none"

\* the whole of save_fairy_tales on the list resp
SaveFairyTales(resp) ==
    LET saved == SaveLoop(resp, 1, <<>>)
    IN [sections |-> saved.sections, exc |-> saved.exc,
        written |-> OutputCalled(saved)]

PdfEntries ==
    {<<PyStr("Once"), PyStr("Title")>>, <<PyInt("1"), PyStr("Title")>>,
     <<PyStr("Once"), None>>, <<PyStr("Once")>>}

RECURSIVE SeqsUpTo(_, _)
SeqsUpTo(S, n) ==
    IF n = 0 THEN {<<>>}
    ELSE LET shorter == SeqsUpTo(S, n - 1)
         IN shorter \cup {Append(q, e) : q \in shorter, e \in S}

\* the lists a caller of PDF passes
PdfInputs == SeqsUpTo(PdfEntries, MaxEntries)

\* pdf = PDF(...); pdf.save_fairy_tales(resp)
PdfSaves(resp) ==
    LET saved == SaveFairyTales(resp)
    IN /\ pdfInput' = PyList(resp)
       /\ pdfSections' = saved.sections
       /\ fileWritten' = saved.written
       /\ pdfExc' = saved.exc

\* a caller of the PDF class
PdfSave ==
    /\ UNCHANGED mockVars
    /\ rpc = "pdf"
    /\ pdfInput.type = "NoneType"
    /\ \E resp \in PdfInputs : PdfSaves(resp)
    /\ UNCHANGED <<rpc, objVars, lastError, writeVars, asstVars, runVars>>

(***************************************************************************)
(* A caller of the FairyTale class (rpc = "lib").                          *)
(***************************************************************************)
\* the caller makes its calls one after the other: none while the tasks of
\* a write_fairy_tales call are still running
CallerTurn == wpc # "gathering" /\ \A i \in 1..Len(tasks) : tasks[i].pc \in Ended

\* FairyTale(api_key, *args): self.topics = list(args) comes first
Construct ==
    /\ UNCHANGED mockVars
    /\ rpc = "lib"
    /\ ~constructed
    /\ \E args \in TopicInputs :
         IF TopicsRejected(args)
         THEN /\ lastError' = "ValueError"
              /\ UNCHANGED objVars
         ELSE /\ lastError' = "none"
              /\ constructed' = TRUE
              /\ topics' = args
              /\ assistant' = "None"
              /\ responses' = None
    /\ UNCHANGED <<rpc, writeVars, asstVars, runVars, pdfVars>>

\* variant: the value is stored before it is tested
SetTopicsStoresFirst ==
    /\ UNCHANGED mockVars
    /\ rpc = "lib"
    /\ constructed
    /\ wpc = "idle"
    /\ \E value \in TopicInputs :
         /\ lastError' = IF TopicsRejected(value) THEN "ValueError" ELSE "none"
         /\ topics' = value
    /\ UNCHANGED <<rpc, constructed, assistant, responses, writeVars, asstVars,
                   runVars, pdfVars>>

\* fairy_tale.topics = value
SetTopics ==
    /\ UNCHANGED mockVars
    /\ rpc = "lib"
    /\ constructed
    /\ wpc = "idle"
    /\ \E value \in TopicInputs :
         IF TopicsRejected(value)
         THEN /\ lastError' = "ValueError"
              /\ UNCHANGED topics
         ELSE /\ lastError' = "none"
              /\ topics' = value
    /\ UNCHANGED <<rpc, constructed, assistant, responses, writeVars, asstVars,
                   runVars, pdfVars>>

\* await fairy_tale.create_assistant(...)
CreateAssistant ==
    /\ UNCHANGED mockVars
    /\ rpc = "lib"
    /\ constructed
    /\ CallerTurn
    /\ remoteAssistant = "absent"
    /\ \/ CreateAssistantOk /\ lastError' = "none"
       \/ lastError' = "OpenAIError" /\ UNCHANGED <<assistant, asstVars>>
    /\ UNCHANGED <<rpc, constructed, topics, responses, writeVars, runVars, pdfVars>>

\* await fairy_tale.delete_assistant()
DeleteAssistant ==
    /\ UNCHANGED mockVars
    /\ rpc = "lib"
    /\ constructed
    /\ CallerTurn
    /\ IF assistant = "None"
       THEN \* self.assistant.id
            lastError' = "AttributeError" /\ UNCHANGED <<assistant, asstVars>>
       ELSE \/ DeleteAssistantOk /\ lastError' = "none"
            \/ DeleteAssistantRaises /\ lastError' = "OpenAIError"
    /\ UNCHANGED <<rpc, constructed, topics, responses, writeVars, runVars, pdfVars>>

\* a task is created for write_fairy_tales(first_prompt, second_prompt)
WriteFairyTales ==
    /\ UNCHANGED mockVars
    /\ rpc = "lib"
    /\ CallerTurn
    /\ WriteCall
    /\ lastError' = "none"
    /\ UNCHANGED <<rpc, objVars, asstVars, runVars, pdfVars>>

\* the caller cancels that task
CancelWrite ==
    /\ UNCHANGED mockVars
    /\ rpc = "lib"
    /\ WriteCancelled
    /\ UNCHANGED <<rpc, objVars, lastError, asstVars, runVars, pdfVars>>

(***************************************************************************)
(* run() under asyncio.run (rpc is its position).                          *)
(***************************************************************************)
\* variant: the cleanup is not in a finally clause and is skipped when the
\* body is left by CancelledError
SkipCleanupOnCancel(path) == IF path = "CancelledError" THEN "exit" ELSE "finally"

\* where control goes when the try body is left by path: the finally
\* clause runs on every exit
NextAfterBody(path) == "finally"

\* the exception still propagating when the finally clause is entered:
\* OpenAIError and CancelledError are caught by the except clauses
PendingExc(path) ==
    IF path \in {"normal", "OpenAIError", "CancelledError"} THEN "none" ELSE path

\* the first try: the topics are read and the object is constructed
RunStart ==
    /\ UNCHANGED mockVars
    /\ rpc = "start"
    /\ \/ \* input() raises EOFError: return
          /\ rpc' = "exit"
          /\ UNCHANGED <<objVars, runVars>>
       \/ \E args \in TopicInputs :
            IF TopicsRejected(args)
            THEN \* ValueError is not caught
                 /\ rpc' = "exit"
                 /\ runExc' = "ValueError"
                 /\ UNCHANGED <<objVars, runPath>>
            ELSE /\ rpc' = "create"
                 /\ constructed' = TRUE
                 /\ topics' = args
                 /\ assistant' = "None"
                 /\ responses' = None
                 /\ UNCHANGED runVars
    /\ UNCHANGED <<lastError, writeVars, asstVars, pdfVars>>

\* await fairy_tale.create_assistant(...)
RunCreateAssistant ==
    /\ UNCHANGED mockVars
    /\ rpc = "create"
    /\ \/ CreateAssistantOk /\ rpc' = "generate" /\ UNCHANGED runVars
       \/ /\ runPath' = "OpenAIError"
          /\ rpc' = NextAfterBody("OpenAIError")
          /\ UNCHANGED <<assistant, asstVars, runExc>>
    /\ UNCHANGED <<constructed, topics, responses, lastError, writeVars, pdfVars>>

\* await fairy_tale.write_fairy_tales(first_prompt, second_prompt): the call
RunGenerate ==
    /\ UNCHANGED mockVars
    /\ rpc = "generate"
    /\ WriteCall
    /\ rpc' = "generating"
    /\ UNCHANGED <<objVars, lastError, asstVars, runVars, pdfVars>>

\* write_fairy_tales is over and run() goes on
RunGenerated ==
    /\ UNCHANGED mockVars
    /\ rpc = "generating"
    /\ \/ wpc = "returned" /\ rpc' = "save" /\ UNCHANGED runVars
       \/ /\ wpc = "raised"
          /\ runPath' = wexc
          /\ rpc' = NextAfterBody(wexc)
          /\ UNCHANGED runExc
    /\ UNCHANGED <<objVars, lastError, writeVars, asstVars, pdfVars>>

\* pdf = PDF(...); pdf.save_fairy_tales(fairy_tale.responses)
RunSave ==
    /\ UNCHANGED mockVars
    /\ rpc = "save"
    /\ \/ \* PDF.__init__: add_font does not find the font file
          /\ runPath' = "FileNotFoundError"
          /\ rpc' = NextAfterBody("FileNotFoundError")
          /\ UNCHANGED pdfVars
       \/ /\ PdfSaves(responses.value)
          /\ LET path == IF SaveFairyTales(responses.value).exc = "none"
                         THEN "normal" ELSE "ValueError"
             IN runPath' = path /\ rpc' = NextAfterBody(path)
    /\ UNCHANGED <<objVars, lastError, writeVars, asstVars, runExc>>

\* KeyboardInterrupt: asyncio.run cancels the task of run(), which gets
\* CancelledError at the await it is suspended in
RunInterrupted ==
    /\ UNCHANGED mockVars
    /\ \/ /\ rpc = "create"
          /\ UNCHANGED writeVars
       \/ /\ rpc = "generating"
          /\ WriteCancelled
    /\ runPath' = "CancelledError"
    /\ rpc' = NextAfterBody("CancelledError")
    /\ UNCHANGED <<objVars, lastError, asstVars, runExc, pdfVars>>

\* the finally clause, the end of run() and the teardown of asyncio.run,
\* which cancels the tasks that are left
RunFinally ==
    /\ UNCHANGED mockVars
    /\ rpc = "finally"
    /\ rpc' = "exit"
    /\ IF assistant = "None"
       THEN /\ runExc' = PendingExc(runPath)
            /\ UNCHANGED <<assistant, asstVars>>
       ELSE \/ DeleteAssistantOk /\ runExc' = PendingExc(runPath)
            \/ \* except OpenAIError: print(e); return
               DeleteAssistantRaises /\ runExc' = "none"
            \/ \* interrupted in the await
               DeleteAssistantRaises /\ runExc' = "CancelledError"
    /\ tasks' = CancelChildren(tasks)
    /\ threads' = CancelThreads(tasks, threads)
    /\ UNCHANGED <<constructed, topics, responses, lastError, wpc, wexc,
                   doneOrder, runPath, pdfVars>>

RunNext ==
    \/ RunStart
    \/ RunCreateAssistant
    \/ RunGenerate
    \/ RunGenerated
    \/ RunSave
    \/ RunInterrupted
    \/ RunFinally

LibNext ==
    \/ Construct
    \/ SetTopics
    \/ CreateAssistant
    \/ DeleteAssistant
    \/ WriteFairyTales
    \/ CancelWrite

Next ==
    \/ LibNext
    \/ RunNext
    \/ TaskNext
    \/ WriteReturn
    \/ PdfSave

Spec == Init /\ [][Next]_vars

(***************************************************************************)
(* A caller that mocks the remote service and calls write_fairy_tales      *)
(* twice.  The mock answers by a script: every run starts queued and ends  *)
(* with the status the script gives for its topic and exchange; no call    *)
(* raises.  Scheduling of the pipelines stays free.                        *)
(***************************************************************************)

\* the scripts of a mock service for n topics
Scripts(n) == [1..n -> [run1 : Terminal, run2 : Terminal]]

\* FairyTale(None, *topics) with client.beta replaced by the mock
MockConstruct ==
    /\ rpc = "mock"
    /\ \E n \in 1..MaxTopics : \E script \in Scripts(n) :
        /\ topics' = SubSeq(TopicNames, 1, n)
        /\ service' = [mode |-> "mock", script |-> script]
    /\ constructed' = TRUE
    /\ rpc' = "mock_create"
    /\ UNCHANGED <<assistant, responses, lastError, writeVars, asstVars,
                   runVars, pdfVars, firstResult>>

\* await fairy_tale.create_assistant(...)
MockCreateAssistant ==
    /\ rpc = "mock_create"
    /\ CreateAssistantOk
    /\ rpc' = "mock_first"
    /\ UNCHANGED <<constructed, topics, responses, lastError, writeVars,
                   runVars, pdfVars, mockVars>>

\* first = await fairy_tale.write_fairy_tales(...): the call
MockFirstCall ==
    /\ rpc = "mock_first"
    /\ wpc = "idle"
    /\ WriteCall
    /\ UNCHANGED <<rpc, objVars, lastError, asstVars, runVars, pdfVars,
                   mockVars>>

\* the first call has returned: the caller keeps its result and calls again
MockSecondCall ==
    /\ rpc = "mock_first"
    /\ wpc = "returned"
    /\ firstResult' = responses
    /\ WriteCall
    /\ rpc' = "mock_second"
    /\ UNCHANGED <<objVars, lastError, asstVars, runVars, pdfVars, service>>

MockNext ==
    \/ MockConstruct
    \/ MockCreateAssistant
    \/ MockFirstCall
    \/ MockSecondCall
    \/ TaskNext
    \/ WriteReturn

MockInit ==
    /\ rpc = "mock"
    /\ StartState

MockSpec == MockInit /\ [][MockNext]_vars

(***************************************************************************)
(* A caller that calls write_fairy_tales once against a slow service: no   *)
(* call raises, a run is reported queued, then in progress for any number  *)
(* of polls, and ends as the script says, or never.  The event loop runs   *)
(* every task that can run; a run that ends is reported as ended at some   *)
(* poll.                                                                   *)
(***************************************************************************)

\* what a script says of the two runs of a topic: a second run is created
\* only when the first has ended
SlowEntries ==
    {[run1 |-> "ends", run2 |-> "ends"], [run1 |-> "ends", run2 |-> "never"],
     [run1 |-> "never", run2 |-> "never"]}

SlowScripts(n) == [1..n -> SlowEntries]

\* FairyTale(None, *topics) with client.beta replaced by the slow service
SlowConstruct ==
    /\ rpc = "slow"
    /\ \E n \in 1..MaxTopics : \E script \in SlowScripts(n) :
        /\ topics' = SubSeq(TopicNames, 1, n)
        /\ service' = [mode |-> "slow", script |-> script]
    /\ constructed' = TRUE
    /\ rpc' = "slow_create"
    /\ UNCHANGED <<assistant, responses, lastError, writeVars, asstVars,
                   runVars, pdfVars, firstResult>>

\* await fairy_tale.create_assistant(...)
SlowCreateAssistant ==
    /\ rpc = "slow_create"
    /\ CreateAssistantOk
    /\ rpc' = "slow_call"
    /\ UNCHANGED <<constructed, topics, responses, lastError, writeVars,
                   runVars, pdfVars, mockVars>>

\* await fairy_tale.write_fairy_tales(...): the call
SlowCall ==
    /\ rpc = "slow_call"
    /\ wpc = "idle"
    /\ WriteCall
    /\ UNCHANGED <<rpc, objVars, lastError, asstVars, runVars, pdfVars,
                   mockVars>>

SlowNext ==
    \/ SlowConstruct
    \/ SlowCreateAssistant
    \/ SlowCall
    \/ TaskNext
    \/ WriteReturn

SlowInit ==
    /\ rpc = "slow"
    /\ StartState

\* a step of task i
TaskStep(i) ==
    \/ ThreadsCreate(i)
    \/ \E k \in {1, 2} : AddMessage(i, k) \/ RunsCreate(i, k) \/ RunsRetrieve(i, k)
    \/ MessagesList(i)
    \/ ThreadsDelete(i)

\* a poll of task i at which its run is reported as ended
RunReported(i) ==
    \E k \in {1, 2} : RunsRetrieve(i, k) /\ tasks'[i][RunField(k)] \in Terminal

SlowFairness ==
    /\ \A i \in 1..MaxTopics : WF_vars(TaskStep(i)) /\ WF_vars(RunReported(i))
    /\ WF_vars(WriteReturn)

SlowSpec == SlowInit /\ [][SlowNext]_vars /\ SlowFairness

(***************************************************************************)
(* Properties.                                                             *)
(***************************************************************************)
\* the entry a topic yields when both of its runs complete: the assistant's
\* reply to the first prompt, then its reply to the second
ExpectedEntry(topic) ==
    LET first == FirstPrompt \o topic \o "." \o "|"
    IN <<PyStr("re:" \o first), PyStr("re:" \o first \o SecondPrompt \o "|")>>

\* r lists the entries of topics ts[f[1]], ts[f[2]], ... for an increasing f
IsSubsequenceOfTopics(r, ts) ==
    \E f \in [1..Len(r) -> 1..Len(ts)] :
        /\ \A a, b \in 1..Len(r) : a < b => f[a] < f[b]
        /\ \A k \in 1..Len(r) : r[k] = ExpectedEntry(ts[f[k]])

\* C1: whenever write_fairy_tales has returned, the returned list is no
\* longer than the topic list and its entries are those of a subsequence of
\* the topics, in topic order, whatever order the pipelines completed in.
C1_OrderedSubsequence ==
    wpc = "returned" =>
        /\ Len(responses.value) <= Len(topics)
        /\ IsSubsequenceOfTopics(responses.value, topics)

\* two topics, both stories returned, the second pipeline finished first
C1_Witness ==
    /\ wpc = "returned"
    /\ Len(responses.value) = 2
    /\ doneOrder = <<2, 1>>

\* C2 (as claimed): a failure inside one pipeline never raises out of
\* write_fairy_tales.
C2_NeverRaises == wpc # "raised"

\* the entries of the tasks from i on that returned a story, each being the
\* entry of its own topic alone
RECURSIVE EntriesOfSuccessful(_)
EntriesOfSuccessful(i) ==
    IF i > Len(tasks) THEN <<>>
    ELSE IF tasks[i].result.type = "NoneType" THEN EntriesOfSuccessful(i + 1)
    ELSE <<ExpectedEntry(topics[i])>> \o EntriesOfSuccessful(i + 1)

\* C3: a pipeline that ends with a run that is not completed returns None,
\* and the list write_fairy_tales returns is exactly the entries of the
\* other topics, each as its own topic alone determines it.
C3_Isolation ==
    /\ [][\A i \in 1..Len(tasks) :
            (/\ tasks[i].pc = "delete"
             /\ i \in 1..Len(tasks')
             /\ tasks'[i].pc = "done"
             /\ (tasks[i].run1 # "completed" \/ tasks[i].run2 # "completed"))
            => tasks'[i].result.type = "NoneType"]_vars
    /\ [](wpc = "returned" => responses.value = EntriesOfSuccessful(1))

\* two topics, one pipeline ended without a story, the other one's entry is
\* the whole result
C3_Witness ==
    /\ wpc = "returned"
    /\ Len(tasks) = 2
    /\ \E i \in 1..2 : tasks[i].result.type = "NoneType"
    /\ Len(responses.value) = 1

\* every pipeline of the call ended without a story
AllFailed ==
    /\ tasks # <<>>
    /\ \A i \in 1..Len(tasks) :
          \/ tasks[i].pc = "raised"
          \/ tasks[i].pc = "done" /\ tasks[i].result.type = "NoneType"

\* C4 (as claimed): when every pipeline fails, write_fairy_tales does not
\* raise, and what it returns is the empty list.
C4_AllFailEmpty ==
    AllFailed => /\ wpc # "raised"
                 /\ wpc = "returned" => responses.value = <<>>

\* C5 (as claimed): a pipeline that is over and had created its thread has
\* requested the deletion of that thread.
C5_ThreadDeleted ==
    \A i \in 1..Len(tasks) :
        (tasks[i].pc \in Ended /\ threads[i].created) => threads[i].deleteAttempted

\* C6 (as claimed): no FairyTale exists whose topics are all empty or
\* whitespace-only.
C6_NoBlankConfiguration ==
    constructed => \E i \in 1..Len(topics) : ~IsBlank(topics[i])

\* the prompts built from an empty or whitespace-only topic
BlankPrompts == {FirstPrompt \o b \o "." : b \in {"", " "}}

\* C7 (as claimed): no prompt built from an empty or whitespace-only topic
\* is posted to a thread.
C7_NoBlankPrompt ==
    \A i \in 1..Len(threads) : \A k \in 1..Len(threads[i].msgs) :
        threads[i].msgs[k].role = "user" => threads[i].msgs[k].text \notin BlankPrompts

\* C8: when run() is over and create_assistant had returned the assistant,
\* its deletion has been requested.
C8_AssistantCleanup ==
    (rpc = "exit" /\ remoteAssistant # "absent") => deleteAttempted

\* run() was interrupted while generating and still requested the deletion
C8_Witness ==
    /\ rpc = "exit"
    /\ runPath = "CancelledError"
    /\ wpc = "cancelled"
    /\ deleteAttempted

\* C9: the responses attribute changes only when write_fairy_tales returns,
\* with every pipeline done; a call that raises or is cancelled leaves it
\* as it was.
C9_NoPartialResult ==
    [][/\ responses' # responses =>
             /\ wpc = "gathering" /\ wpc' = "returned"
             /\ \A i \in 1..Len(tasks) : tasks[i].pc = "done"
       /\ (wpc = "gathering" /\ wpc' \in {"raised", "cancelled"}) =>
             responses' = responses]_vars

\* a call was cancelled after one pipeline had returned its story, and
\* responses is still None
C9_Witness ==
    /\ wpc = "cancelled"
    /\ \E i \in 1..Len(tasks) : tasks[i].pc = "done" /\ tasks[i].result.type = "generator"
    /\ responses.type = "NoneType"

\* some entry of the list is a pair whose content or title is not a str
HasNonTextEntry(resp) ==
    \E i \in 1..Len(resp) :
        Len(resp[i]) = 2 /\ ~(IsStr(resp[i][1]) /\ IsStr(resp[i][2]))

\* C10: save_fairy_tales called with a list that has an entry whose content
\* or title is not a str raises ValueError and output is not called.
C10_InvalidEntryNoFile ==
    (pdfInput.type = "list" /\ HasNonTextEntry(pdfInput.value)) =>
        pdfExc = "ValueError" /\ ~fileWritten

\* a valid entry was added before the invalid one was met
C10_Witness ==
    /\ pdfInput.type = "list"
    /\ HasNonTextEntry(pdfInput.value)
    /\ Len(pdfSections) = 1
    /\ pdfExc = "ValueError"
    /\ ~fileWritten

\* C11: against a service that answers by a script, the second call of
\* write_fairy_tales on the same topics returns the list the first call
\* returned, entry for entry and in the same order, however the pipelines of
\* either call were scheduled
C11_SecondCallSame ==
    (rpc = "mock_second" /\ wpc = "returned") => responses = firstResult

\* both calls returned two stories, the second call's pipelines ending in
\* the reverse order
C11_Witness ==
    /\ rpc = "mock_second" /\ wpc = "returned"
    /\ Len(responses.value) = 2
    /\ doneOrder = <<2, 1>>

\* C12: the step in which create_assistant completes leaves assistant set;
\* the step in which delete_assistant completes leaves it None; and a step
\* that does not complete a deletion, a deletion that raises among them,
\* leaves a set assistant as it was
C12_AssistantLifecycle ==
    [][/\ (remoteAssistant # "live" /\ remoteAssistant' = "live")
            => assistant' # "None"
       /\ (remoteAssistant # "deleted" /\ remoteAssistant' = "deleted")
            => assistant' = "None"
       /\ (assistant # "None" /\ remoteAssistant' # "deleted")
            => assistant' = assistant]_vars

\* a deletion was attempted and raised: the assistant is still held
C12_Witness ==
    /\ deleteAttempted
    /\ remoteAssistant = "live"
    /\ assistant # "None"
    /\ lastError = "OpenAIError"

\* the second user message arrives in the session of task i
SecondPosted(i) ==
    /\ Len(threads'[i].msgs) = Len(threads[i].msgs) + 1
    /\ threads'[i].msgs[Len(threads'[i].msgs)] = UserMsg(SecondPrompt)

\* the second run of the session of task i is created
SecondCreated(i) == Len(threads[i].runs) < 2 /\ Len(threads'[i].runs) = 2

PendingRuns(th) == {k \in 1..Len(th.runs) : th.runs[k] \in Pending}

\* C13: in a session the second user message is posted and the second run
\* is created only when the first run exists and was observed with a status
\* other than queued and in_progress, and a session never has two runs that
\* are both queued or in progress
C13_Sequential ==
    /\ [](\A i \in 1..Len(threads) : Cardinality(PendingRuns(threads[i])) <= 1)
    /\ [][\A i \in 1..Len(threads) :
            (i <= Len(threads') /\ (SecondPosted(i) \/ SecondCreated(i)))
            => /\ Len(threads[i].runs) >= 1
               /\ threads[i].runs[1] \notin Pending
               /\ tasks[i].run1 \in Terminal]_vars

\* the second run of a session is pending, the first has completed
C13_Witness ==
    \E i \in 1..Len(threads) :
        /\ Len(threads[i].runs) = 2
        /\ threads[i].runs[1] = "completed"
        /\ threads[i].runs[2] \in Pending
        /\ tasks[i].pc = "poll2"

\* C14: once the first run of a session has ended with a status other than
\* completed, no second message is posted and no second run is created in
\* that session
C14_FailedFirstStops ==
    [][\A i \in 1..Len(threads) :
        (/\ Len(threads[i].runs) >= 1
         /\ threads[i].runs[1] \in Terminal \ {"completed"}
         /\ i <= Len(threads'))
        => ~(SecondPosted(i) \/ SecondCreated(i))]_vars

\* C15: get_fairy_tale returns the texts exactly when both runs of its
\* session ended completed; when either run ended otherwise it returns None,
\* whatever the other run's status and whatever the session holds
C15_StoryOnlyIfBothCompleted ==
    /\ [][\A i \in 1..Len(tasks) :
            (tasks[i].pc = "delete" /\ i <= Len(tasks') /\ tasks'[i].pc = "done")
            => (tasks'[i].result.type = "generator"
                    <=> threads[i].runs = <<"completed", "completed">>)]_vars
    /\ [](\A i \in 1..Len(tasks) :
            (tasks[i].pc = "done" /\ service.mode = "mock")
            => (tasks[i].result = None
                    <=> (service.script[i].run1 # "completed"
                         \/ service.script[i].run2 # "completed")))

\* a pipeline whose first run completed, leaving the assistant's reply in
\* the session, and whose second run failed has returned None
C15_Witness ==
    \E i \in 1..Len(tasks) :
        /\ service.mode = "mock"
        /\ service.script[i] = [run1 |-> "completed", run2 |-> "failed"]
        /\ tasks[i].pc = "done"
        /\ tasks[i].result = None

AllRunsEnd ==
    /\ service.mode = "slow"
    /\ \A i \in 1..Len(service.script) :
        service.script[i].run1 = "ends" /\ service.script[i].run2 = "ends"

\* C17: a task that is past wait_for_response holds a run whose status is
\* neither queued nor in_progress; and when every run ends and no remote
\* call raises, a call of write_fairy_tales returns
C17_PollingTerminates ==
    /\ [](\A i \in 1..Len(tasks) :
            /\ tasks[i].pc \in {"post2", "create2", "poll2", "list", "delete"}
                => tasks[i].run1 \in Terminal
            /\ tasks[i].pc \in {"list", "delete"} => tasks[i].run2 \in Terminal)
    /\ ((wpc = "gathering" /\ AllRunsEnd) ~> wpc = "returned")

\* a call on two topics against the slow service has returned
C17_Witness ==
    /\ service.mode = "slow"
    /\ Len(topics) = 2
    /\ wpc = "returned"

\* C18: a pipeline whose request to delete its session failed has still
\* returned: the failure of the deletion is not raised out of it
C18_DeleteFailureContained ==
    \A i \in 1..Len(tasks) :
        (threads[i].deleteAttempted /\ ~threads[i].deleted)
            => (tasks[i].pc = "done" /\ tasks[i].exc = "none")

\* every run of topic i ends, by the script of the slow service
RunsEnd(i) ==
    /\ service.mode = "slow"
    /\ i <= Len(service.script)
    /\ service.script[i] = [run1 |-> "ends", run2 |-> "ends"]

\* a run of some topic stays pending for ever, by that script
SomeRunStuck ==
    /\ service.mode = "slow"
    /\ \E j \in 1..Len(service.script) : ~RunsEnd(j)

\* C19: when a run of one pipeline stays pending for ever, every pipeline
\* whose own runs end still goes through both exchanges, has its session
\* deleted and returns, and write_fairy_tales does not return
C19_StuckSiblingDoesNotBlock ==
    /\ \A i \in 1..MaxTopics :
        (wpc = "gathering" /\ SomeRunStuck /\ RunsEnd(i))
            ~> (i <= Len(tasks) /\ tasks[i].pc = "done" /\ threads[i].deleted)
    /\ [](SomeRunStuck => wpc # "returned")

\* the first pipeline polls a run that never ends; the second has returned
\* and its session is deleted; the call is still waiting
C19_Witness ==
    /\ SomeRunStuck
    /\ Len(tasks) = 2
    /\ service.script[1].run1 = "never"
    /\ tasks[1].pc = "poll1" /\ tasks[1].run1 = "in_progress"
    /\ tasks[2].pc = "done" /\ threads[2].deleted
    /\ wpc = "gathering"

\* C20: a step that ends with ValueError on a constructed FairyTale, an
\* assignment to topics that is rejected, leaves topics, assistant and
\* responses as they were; and the pipelines of a call made through the
\* library are those of the topics the getter returns
C20_RejectedSetKeepsTopics ==
    /\ [][(constructed /\ lastError' = "ValueError")
            => UNCHANGED <<constructed, topics, assistant, responses>>]_vars
    /\ [](rpc = "lib" =>
            /\ Len(tasks) > 0 => Len(tasks) = Len(topics)
            /\ \A i \in 1..Len(tasks) :
                tasks[i].first_prompt = FirstPrompt \o topics[i] \o ".")

\* an assignment to topics of a FairyTale constructed with two topics was
\* rejected: the two topics are still there
C20_Witness ==
    /\ rpc = "lib"
    /\ constructed
    /\ lastError = "ValueError"
    /\ Len(topics) = 2

====
